---- MODULE Spec2Model ----
(***************************************************************************)
(* Model of the BISCodeHelpers database layer:                             *)
(*   helpers/connection_management.py  create_engine, ConnectionManager    *)
(*   helpers/database_interaction.py   get_db_table_column_names,          *)
(*       get_db_table_row_count, truncate_table, drop_table, create_table, *)
(*       upload_data_to_table                                              *)
(* One caller works on one table name through one engine.  Every public    *)
(* function is followed statement by statement (pc); the database answers  *)
(* each statement with success or with one of the failures the code tells  *)
(* apart by message.                                                       *)
(***************************************************************************)
EXTENDS Integers, Sequences, FiniteSets, TLC

\* ---------------------------------------------------------------- bounds
MaxN == 3          \* largest number of rows of the caller's DataFrame
MaxNegB == 1       \* upload_partition_size is tried down to -MaxNegB
MaxB == 3          \* largest upload_partition_size tried
MaxRows == 3       \* uploads are started only while the table stays this small
MaxIter == MaxN + 2 \* cap of iterator_index; no terminating upload reaches it

\* ------------------------------------------------------------ column names
\* A column name is a sequence of characters.
LowerChars == <<"a","b","c","d","e","f","g","h","i","j","k","l","m",
                "n","o","p","q","r","s","t","u","v","w","x","y","z">>
UpperChars == <<"A","B","C","D","E","F","G","H","I","J","K","L","M",
                "N","O","P","Q","R","S","T","U","V","W","X","Y","Z">>

UpperChar(ch) ==
    IF \E i \in 1..Len(LowerChars) : LowerChars[i] = ch
    THEN UpperChars[CHOOSE i \in 1..Len(LowerChars) : LowerChars[i] = ch]
    ELSE ch

\* str.upper()
upper(s) == [i \in 1..Len(s) |-> UpperChar(s[i])]

\* str.replace(" ", "_")
replace(s) == [i \in 1..Len(s) |-> IF s[i] = " " THEN "_" ELSE s[i]]

DATE_CREATED == <<"D","A","T","E","_","C","R","E","A","T","E","D">>

Range(s) == {s[i] : i \in 1..Len(s)}

\* [x.upper() for x in db_col_names], as a set
DbColNamesSet(cols) == {upper(cols[i]) : i \in 1..Len(cols)}

\* [x.upper().replace(" ", "_") for x in data_results.columns] (+ DATE_CREATED),
\* as a set
NewDataColNamesSet(cols, udc) ==
    {replace(upper(cols[i])) : i \in 1..Len(cols)}
        \cup (IF udc THEN {DATE_CREATED} ELSE {})

\* variant: only columns of the data that the table lacks count as a difference
ColumnsMissing(D, S) == ~(S \subseteq D)

\* db_col_names_set != new_data_col_names_set
ColumnsDiffer(D, S) == D # S

\* variant: only the columns the data lacks are listed
DiffOneSided(D, S) == (D \cup S) \ S

\* diff = (union - new_data_col_names_set).union(union - db_col_names_set)
Diff(D, S) == ((D \cup S) \ S) \cup ((D \cup S) \ D)

\* Columns of the table made by the CREATE statement of create_table: the
\* DataFrame's columns, normalised, plus DATE_CREATED when requested.
CreatedColumns(cols, udc) ==
    LET norm == [i \in 1..Len(cols) |-> replace(upper(cols[i]))]
    IN  IF udc /\ DATE_CREATED \notin Range(norm)
        THEN Append(norm, DATE_CREATED) ELSE norm

\* table_data["DATE_CREATED"] = date_str : adds the column, or overwrites it
StampDateCreated(cols) ==
    IF DATE_CREATED \in Range(cols) THEN cols ELSE Append(cols, DATE_CREATED)

\* ------------------------------------------------------------------ slices
Min(a, b) == IF a < b THEN a ELSE b
Max(a, b) == IF a > b THEN a ELSE b

\* Python's resolution of one slice bound against a frame of n rows
SliceIndex(k, n) == IF k < 0 THEN Max(k + n, 0) ELSE Min(k, n)

\* table_data[start:stop] : the row positions selected, in order
SliceRows(start, stop, n) ==
    LET lo == SliceIndex(start, n)
        hi == SliceIndex(stop, n)
    IN  [j \in 1..Max(hi - lo, 0) |-> lo + j - 1]

\* variant: the loop also takes a batch that ends exactly at the last row
LoopTestInclusive(i, b, n) == (i + 1) * b <= n

\* while (iterator_index + 1) * upload_partition_size < data_num_records
LoopTest(i, b, n) == (i + 1) * b < n

\* --------------------------------------------------------------- test data
n_a   == <<"a">>
n_ab  == <<"a"," ","b">>
n_A   == <<"A">>
n_AB  == <<"A","_","B">>
n_AsB == <<"A"," ","B">>

\* column lists of the caller's DataFrame
DataColumnLists == { <<n_a>>, <<n_a, n_ab>> }

\* column lists a table of that name may have on the database
TableColumnLists == { <<n_a>>, <<n_A, n_AB, DATE_CREATED>>, <<n_A, n_AsB>> }

NoTable == [exists |-> FALSE, cols |-> <<>>, rows |-> <<>>]

Operations == {"create_engine", "get_db_table_column_names",
               "get_db_table_row_count", "truncate_table", "drop_table",
               "create_table", "upload_data_to_table"}

\* a value returned by a schema query: None, a list of columns or a count
None == [none |-> TRUE, cols |-> <<>>, count |-> 0]
ColumnList(cols) == [none |-> FALSE, cols |-> cols, count |-> 0]
Count(k) == [none |-> FALSE, cols |-> <<>>, count |-> k]

\* no successful create_table directly before this call
NoCreate == [created |-> FALSE, compared |-> FALSE, udc |-> FALSE]

VARIABLES
    pc,               \* the statement the caller is at ("idle" between calls)
    op,               \* the public function being executed
    table_data,       \* the caller's DataFrame: [columns, n]
    use_date_created, \* argument of the current call
    upload_partition_size, \* argument of the current upload
    iterator_index,   \* local of upload_data_to_table
    table,            \* the table on the database: [exists, cols, rows]
    tableBefore,      \* the table when the current call started
    pend,             \* rows inserted by the open transaction, not yet committed
    trans,            \* the transaction last begun in this call
    closes,           \* per connection acquired in this call: times closed
    exc,              \* exception in flight ("none" if none)
    retval,           \* value returned by the function that last returned
    diff,             \* the difference listed by LoggedDataError
    stmts,            \* statements executed in this call, in order
    result,           \* how the call ended: "ok" (returned) or the error raised
    prev              \* whether the call before this one was a create_table
                      \* that returned, whether it did so after comparing
                      \* the columns, and its use_date_created

vars == <<pc, op, table_data, use_date_created, upload_partition_size,
          iterator_index, table, tableBefore, pend, trans, closes, exc,
          retval, diff, stmts, result, prev>>

Init ==
    /\ pc = "idle"
    /\ op = "none"
    /\ table_data \in [columns : DataColumnLists, n : 0..MaxN]
    /\ use_date_created = FALSE
    /\ upload_partition_size = 1
    /\ iterator_index = 0
    /\ table \in {NoTable} \cup [exists : {TRUE}, cols : TableColumnLists, rows : {<<>>}]
    /\ tableBefore = table
    /\ pend = <<>>
    /\ trans = "none"
    /\ closes = <<>>
    /\ exc = "none"
    /\ retval = None
    /\ diff = {}
    /\ stmts = <<>>
    /\ result = "none"
    /\ prev = NoCreate


\* ------------------------------------------------------ database answers
Ok          == "ok"
NotExist    == "table or view does not exist"
AlreadyUsed == "name is already used by an existing object"
OtherDbErr  == "other database error"
OtherErr    == "other error"

\* What the database may answer to a statement on the table.  A statement on
\* a missing table fails with NotExist, a CREATE of an existing name with
\* AlreadyUsed; any statement may fail for an unrelated reason.
DbAnswers(kind) ==
    IF kind = "create"
    THEN (IF table.exists THEN {AlreadyUsed} ELSE {Ok}) \cup {OtherDbErr}
    ELSE (IF table.exists THEN {Ok} ELSE {NotExist}) \cup {OtherDbErr}

\* "<text>" in str(error)
Contains(msg, text) == msg = text

Statement(kind, start, stop, answer) ==
    [kind |-> kind, start |-> start, stop |-> stop, answer |-> answer]

\* The statements executed so far in this call, with one more.  Only a loop
\* that does not end fills the record; it then keeps the latest statement last.
Executed(s) ==
    IF Len(stmts) <= MaxIter THEN Append(stmts, s)
    ELSE [stmts EXCEPT ![Len(stmts)] = s]

\* ------------------------------------------------------------ call frames
\* A public function is entered: its locals take their initial values.
Enter(o, first, udc, b) ==
    /\ pc = "idle"
    /\ op' = o
    /\ pc' = first
    /\ use_date_created' = udc
    /\ upload_partition_size' = b
    /\ iterator_index' = 0
    /\ tableBefore' = table
    /\ pend' = <<>>
    /\ trans' = "none"
    /\ closes' = <<>>
    /\ exc' = "none"
    /\ retval' = None
    /\ diff' = {}
    /\ stmts' = <<>>
    /\ result' = "running"
    /\ prev' = IF op = "create_table" /\ result = "ok"
               THEN [created |-> TRUE,
                     compared |-> Len(stmts) = 1 /\ stmts[1].answer = "ok",
                     udc |-> use_date_created]
               ELSE NoCreate
    /\ UNCHANGED table

\* The public function returns (result "ok") or raises (result: the error).
Leave(r) ==
    /\ pc' = "idle"
    /\ result' = r

\* conn.begin()
ConnBegin == trans' = "active"

\* trans.commit() : the rows of the transaction become part of the table
TransCommit ==
    /\ trans' = "committed"
    /\ table' = [table EXCEPT !.rows = @ \o pend]
    /\ pend' = <<>>

\* ------------------------------------------------------ ConnectionManager
EnterPcs == {"ce_enter", "cn_enter", "rc_enter", "tr_enter", "dr_enter",
             "ct_enter", "up_enter"}

AfterEnter(l) ==
    CASE l = "ce_enter" -> "ce_exit"
      [] l = "cn_enter" -> "cn_read"
      [] l = "rc_enter" -> "rc_read"
      [] l = "tr_enter" -> "tr_exec"
      [] l = "dr_enter" -> "dr_exec"
      [] l = "ct_enter" -> "ct_exec"
      [] l = "up_enter" -> "up_loop"

\* self.connection = self.engine.connect()
Connect(cs) == Append(cs, 0)

\* variant: the connection is left open when an exception is in flight
CloseUnlessRaising(cs) ==
    IF exc # "none" THEN cs ELSE [cs EXCEPT ![Len(cs)] = @ + 1]

\* self.connection.close()
Close(cs) == [cs EXCEPT ![Len(cs)] = @ + 1]

\* with ConnectionManager(engine) as conn:  engine.connect() may fail; then
\* no connection was acquired and the error leaves the function
\* (create_engine wraps it in a LoggedDatabaseError).
ConnectionManager_enter ==
    /\ pc \in EnterPcs
    /\ \/ /\ closes' = Connect(closes)
          /\ pc' = AfterEnter(pc)
          /\ UNCHANGED result
       \/ /\ Leave(IF pc = "ce_enter" THEN "LoggedDatabaseError"
                                       ELSE "DatabaseError")
          /\ UNCHANGED closes
    /\ UNCHANGED <<prev, trans, op, table_data, use_date_created, upload_partition_size,
                   iterator_index, table, tableBefore, pend, exc, retval,
                   diff, stmts>>

ExitPcs == {"ce_exit", "cn_exit", "rc_exit", "tr_exit", "dr_exit",
            "ct_exit", "up_exit"}

\* __exit__: the connection is closed; a transaction still open on it is
\* lost with it; an exception in flight goes on to the caller.
ConnectionManager_exit ==
    /\ pc \in ExitPcs
    /\ closes' = Close(closes)
    /\ trans' = IF trans = "active" THEN "rolled back" ELSE trans
    /\ pend' = <<>>
    /\ IF exc # "none"
       THEN Leave(exc)
       ELSE IF pc = "cn_exit" /\ op = "create_table"
            THEN pc' = "ct_branch" /\ UNCHANGED result
            ELSE Leave("ok")
    /\ UNCHANGED <<prev, op, table_data, use_date_created, upload_partition_size,
                   iterator_index, table, tableBefore, exc, retval, diff,
                   stmts>>

\* ----------------------------------------------------------- create_engine
create_engine ==
    /\ Enter("create_engine", "ce_enter", FALSE, upload_partition_size)
    /\ UNCHANGED table_data

\* ------------------------------------------------- get_db_table_column_names
get_db_table_column_names ==
    /\ Enter("get_db_table_column_names", "cn_enter", FALSE, upload_partition_size)
    /\ UNCHANGED table_data

\* The value the try/except of a schema query leaves as the return value, or
\* the exception it lets through: [ret, exc].
ReadResult(answer, value) ==
    IF answer = Ok THEN [ret |-> value, exc |-> "none"]
    ELSE IF answer = OtherErr THEN [ret |-> None, exc |-> "Exception"]
    ELSE IF Contains(answer, NotExist) THEN [ret |-> None, exc |-> "none"]
    ELSE [ret |-> None, exc |-> "none"]

get_db_table_column_names_read ==
    /\ pc = "cn_read"
    /\ \E answer \in DbAnswers("select columns") \cup {OtherErr} :
          /\ stmts' = Executed(Statement("select columns", 0, 0, answer))
          /\ retval' = ReadResult(answer, ColumnList(table.cols)).ret
          /\ exc' = ReadResult(answer, ColumnList(table.cols)).exc
    /\ pc' = "cn_exit"
    /\ UNCHANGED <<op, table_data, use_date_created, upload_partition_size,
                   iterator_index, table, tableBefore, pend, trans, closes,
                   diff, result, prev>>

\* --------------------------------------------------- get_db_table_row_count
get_db_table_row_count ==
    /\ Enter("get_db_table_row_count", "rc_enter", FALSE, upload_partition_size)
    /\ UNCHANGED table_data

get_db_table_row_count_read ==
    /\ pc = "rc_read"
    /\ \E answer \in DbAnswers("select count") \cup {OtherErr} :
          /\ stmts' = Executed(Statement("select count", 0, 0, answer))
          /\ retval' = ReadResult(answer, Count(Len(table.rows))).ret
          /\ exc' = ReadResult(answer, Count(Len(table.rows))).exc
    /\ pc' = "rc_exit"
    /\ UNCHANGED <<op, table_data, use_date_created, upload_partition_size,
                   iterator_index, table, tableBefore, pend, trans, closes,
                   diff, result, prev>>


\* ------------------------------------------------ truncate_table, drop_table
\* The except clause of truncate_table and drop_table: the exception that
\* leaves the try statement ("none": execution goes on to trans.commit()).
LifecycleRaises(answer) ==
    IF answer = Ok THEN "none"
    ELSE IF Contains(answer, NotExist) THEN "none"
    ELSE "LoggedDatabaseError"

\* variant: the commit is reached on every outcome, the error is raised after
LifecycleExecuteThenCommit(kind, effect, commitPc, exitPc) ==
    \E answer \in DbAnswers(kind) :
        /\ ConnBegin
        /\ stmts' = Executed(Statement(kind, 0, 0, answer))
        /\ table' = IF answer = Ok THEN effect ELSE table
        /\ exc' = LifecycleRaises(answer)
        /\ pc' = commitPc

\* trans = conn.begin(); try: conn.execute(query) except ...
LifecycleExecute(kind, effect, commitPc, exitPc) ==
    \E answer \in DbAnswers(kind) :
        /\ ConnBegin
        /\ stmts' = Executed(Statement(kind, 0, 0, answer))
        /\ table' = IF answer = Ok THEN effect ELSE table
        /\ exc' = LifecycleRaises(answer)
        /\ pc' = IF LifecycleRaises(answer) = "none" THEN commitPc ELSE exitPc

truncate_table ==
    /\ Enter("truncate_table", "tr_enter", FALSE, upload_partition_size)
    /\ UNCHANGED table_data

truncate_table_execute ==
    /\ pc = "tr_exec"
    /\ LifecycleExecute("truncate", [table EXCEPT !.rows = <<>>],
                        "tr_commit", "tr_exit")
    /\ UNCHANGED <<op, table_data, use_date_created, upload_partition_size,
                   iterator_index, tableBefore, pend, closes, retval, diff,
                   result, prev>>

truncate_table_commit ==
    /\ pc = "tr_commit"
    /\ TransCommit
    /\ pc' = "tr_exit"
    /\ UNCHANGED <<op, table_data, use_date_created, upload_partition_size,
                   iterator_index, tableBefore, closes, exc, retval, diff,
                   stmts, result, prev>>

drop_table ==
    /\ Enter("drop_table", "dr_enter", FALSE, upload_partition_size)
    /\ UNCHANGED table_data

drop_table_execute ==
    /\ pc = "dr_exec"
    /\ LifecycleExecute("drop", NoTable, "dr_commit", "dr_exit")
    /\ UNCHANGED <<op, table_data, use_date_created, upload_partition_size,
                   iterator_index, tableBefore, pend, closes, retval, diff,
                   result, prev>>

drop_table_commit ==
    /\ pc = "dr_commit"
    /\ TransCommit
    /\ pc' = "dr_exit"
    /\ UNCHANGED <<op, table_data, use_date_created, upload_partition_size,
                   iterator_index, tableBefore, closes, exc, retval, diff,
                   stmts, result, prev>>

\* ------------------------------------------------------------ create_table
\* db_col_names = get_db_table_column_names(table_name, engine)
create_table ==
    /\ \E udc \in BOOLEAN :
          Enter("create_table", "cn_enter", udc, 1)
    /\ UNCHANGED table_data

\* if not db_col_names:
TableMissing(db_col_names) == db_col_names.none \/ db_col_names.cols = <<>>

\* The else branch: the error raised by the comparison of the column sets
\* ("none": create_table returns).
CompareRaises(D, S) == IF ColumnsDiffer(D, S) THEN "LoggedDataError" ELSE "none"

create_table_branch ==
    /\ pc = "ct_branch"
    /\ IF TableMissing(retval)
       THEN /\ pc' = "ct_enter"
            /\ UNCHANGED <<diff, result>>
       ELSE LET D == DbColNamesSet(retval.cols)
                S == NewDataColNamesSet(table_data.columns, use_date_created)
            IN  IF CompareRaises(D, S) = "none"
                THEN Leave("ok") /\ UNCHANGED diff
                ELSE Leave(CompareRaises(D, S)) /\ diff' = Diff(D, S)
    /\ UNCHANGED <<prev, op, table_data, use_date_created, upload_partition_size,
                   iterator_index, table, tableBefore, pend, trans, closes,
                   exc, retval, stmts>>

\* The except clause of the CREATE.
CreateRaises(answer) ==
    IF answer = Ok THEN "none"
    ELSE IF Contains(answer, AlreadyUsed) THEN "none"
    ELSE "LoggedDatabaseError"

create_table_execute ==
    /\ pc = "ct_exec"
    /\ \E answer \in DbAnswers("create") :
          /\ ConnBegin
          /\ stmts' = Executed(Statement("create", 0, 0, answer))
          /\ table' = IF answer = Ok
                      THEN [exists |-> TRUE,
                            cols |-> CreatedColumns(table_data.columns,
                                                    use_date_created),
                            rows |-> <<>>]
                      ELSE table
          /\ exc' = CreateRaises(answer)
          /\ pc' = IF CreateRaises(answer) = "none" THEN "ct_commit" ELSE "ct_exit"
    /\ UNCHANGED <<op, table_data, use_date_created, upload_partition_size,
                   iterator_index, tableBefore, pend, closes, retval, diff,
                   result, prev>>

create_table_commit ==
    /\ pc = "ct_commit"
    /\ TransCommit
    /\ pc' = "ct_exit"
    /\ UNCHANGED <<op, table_data, use_date_created, upload_partition_size,
                   iterator_index, tableBefore, closes, exc, retval, diff,
                   stmts, result, prev>>

\* Another session creates a table of that name after create_table has found
\* none and before its CREATE runs: the race the except clause of the CREATE
\* is written for.
OtherSessionCreates ==
    /\ op = "create_table"
    /\ pc \in {"ct_enter", "ct_exec"}
    /\ ~table.exists
    /\ \E cols \in TableColumnLists :
          table' = [exists |-> TRUE, cols |-> cols, rows |-> <<>>]
    /\ UNCHANGED <<pc, op, table_data, use_date_created, upload_partition_size,
                   iterator_index, tableBefore, pend, trans, closes, exc,
                   retval, diff, stmts, result, prev>>

\* ---------------------------------------------------- upload_data_to_table
\* Lines up to the with statement: the locals, and the DATE_CREATED column
\* written into the caller's DataFrame.
upload_data_to_table ==
    /\ Len(table.rows) + table_data.n <= MaxRows
    /\ \E udc \in BOOLEAN, b \in (-MaxNegB)..MaxB :
          /\ Enter("upload_data_to_table", "up_enter", udc, b)
          /\ table_data' = IF udc
                           THEN [table_data EXCEPT
                                    !.columns = StampDateCreated(@)]
                           ELSE table_data

\* variant: the batch stops one row early (the bound the progress notice prints)
BatchStopInclusive(i, b) == (i + 1) * b - 1

\* the rows of the batch insert: table_data[i*size : (i+1)*size]
BatchStart(i, b) == i * b
BatchStop(i, b) == (i + 1) * b

\* the rows of the final insert: table_data[i*size :]
TailStart(i, b) == i * b

\* the loop test, and trans = conn.begin() of the batch or of the tail
upload_data_to_table_loop ==
    /\ pc = "up_loop"
    /\ ConnBegin
    /\ pc' = IF LoopTest(iterator_index, upload_partition_size, table_data.n)
             THEN "up_exec" ELSE "up_tail"
    /\ UNCHANGED <<op, table_data, use_date_created, upload_partition_size,
                   iterator_index, table, tableBefore, pend, closes, exc,
                   retval, diff, stmts, result, prev>>

\* conn.execute(insert_query): no try statement, a failure leaves the function
Insert(start, stop, okPc) ==
    \E answer \in DbAnswers("insert") :
        /\ stmts' = Executed(Statement("insert", start, stop, answer))
        /\ pend' = IF answer = Ok
                   THEN pend \o SliceRows(start, stop, table_data.n)
                   ELSE pend
        /\ exc' = IF answer = Ok THEN "none" ELSE "DatabaseError"
        /\ pc' = IF answer = Ok THEN okPc ELSE "up_exit"

upload_data_to_table_batch ==
    /\ pc = "up_exec"
    /\ Insert(BatchStart(iterator_index, upload_partition_size),
              BatchStop(iterator_index, upload_partition_size), "up_commit")
    /\ UNCHANGED <<op, table_data, use_date_created, upload_partition_size,
                   iterator_index, table, tableBefore, trans, closes, retval,
                   diff, result, prev>>

\* variant: one transaction for the whole upload, no commit between batches
upload_data_to_table_commit_deferred ==
    /\ pc = "up_commit"
    /\ iterator_index' = Min(iterator_index + 1, MaxIter)
    /\ pc' = "up_loop"
    /\ UNCHANGED <<op, table_data, use_date_created, upload_partition_size,
                   table, pend, trans, tableBefore, closes, exc, retval, diff,
                   stmts, result, prev>>

\* trans.commit(); iterator_index += 1
upload_data_to_table_commit ==
    /\ pc = "up_commit"
    /\ TransCommit
    /\ iterator_index' = Min(iterator_index + 1, MaxIter)
    /\ pc' = "up_loop"
    /\ UNCHANGED <<op, table_data, use_date_created, upload_partition_size,
                   tableBefore, closes, exc, retval, diff, stmts, result, prev>>

upload_data_to_table_tail ==
    /\ pc = "up_tail"
    /\ Insert(TailStart(iterator_index, upload_partition_size),
              table_data.n, "up_tcommit")
    /\ UNCHANGED <<op, table_data, use_date_created, upload_partition_size,
                   iterator_index, table, tableBefore, trans, closes, retval,
                   diff, result, prev>>

upload_data_to_table_tail_commit ==
    /\ pc = "up_tcommit"
    /\ TransCommit
    /\ pc' = "up_exit"
    /\ UNCHANGED <<op, table_data, use_date_created, upload_partition_size,
                   iterator_index, tableBefore, closes, exc, retval, diff,
                   stmts, result, prev>>

\* ------------------------------------------------------------ specification
\* a call of a public function
Call ==
    \/ create_engine
    \/ get_db_table_column_names
    \/ get_db_table_row_count
    \/ truncate_table
    \/ drop_table
    \/ create_table
    \/ upload_data_to_table

\* the next statement of the function being executed
Step ==
    \/ ConnectionManager_enter
    \/ ConnectionManager_exit
    \/ get_db_table_column_names_read
    \/ get_db_table_row_count_read
    \/ truncate_table_execute
    \/ truncate_table_commit
    \/ drop_table_execute
    \/ drop_table_commit
    \/ create_table_branch
    \/ create_table_execute
    \/ create_table_commit
    \/ upload_data_to_table_loop
    \/ upload_data_to_table_batch
    \/ upload_data_to_table_commit
    \/ upload_data_to_table_tail
    \/ upload_data_to_table_tail_commit

Next == Call \/ Step \/ OtherSessionCreates

Spec == Init /\ [][Next]_vars

\* The caller is one synchronous thread: a function that has a next statement
\* executes it.
FairSpec == Spec /\ WF_vars(Step)


\* ------------------------------------------------------------- observations
\* the call of o has ended
Ended(o) == pc = "idle" /\ op = o

N == table_data.n
B == upload_partition_size

\* the rows an insert statement carries
RowsOf(st) == SliceRows(st.start, st.stop, N)

\* rows k, k+1, ..., m-1 in order
Interval(k, m) == [j \in 1..(m - k) |-> k + j - 1]

\* the rows of the successful inserts among ss, in the order executed
RECURSIVE InsertedRows(_)
InsertedRows(ss) ==
    IF ss = <<>> THEN <<>>
    ELSE InsertedRows(SubSeq(ss, 1, Len(ss) - 1))
            \o (IF ss[Len(ss)].answer = Ok THEN RowsOf(ss[Len(ss)]) ELSE <<>>)

Unrelated(answer) == answer \in {OtherDbErr, OtherErr}

\* ------------------------------------------------------------------- claims

\* C1 as stated: an upload of N rows, N a multiple of the batch size B,
\* N >= B >= 1, issues N/B + 1 inserts, the last one over the empty range
\* [N, N).
C1_EmptyTail ==
    (Ended("upload_data_to_table") /\ result = "ok"
        /\ B >= 1 /\ N >= B /\ N % B = 0)
    => /\ Len(stmts) = (N \div B) + 1
       /\ stmts[Len(stmts)].start = N
       /\ RowsOf(stmts[Len(stmts)]) = <<>>

\* C1 amended: such an upload issues exactly N/B inserts; the last one is the
\* final insert, over the full batch [N - B, N), and it is not empty.
C1_FullTail ==
    (Ended("upload_data_to_table") /\ result = "ok"
        /\ B >= 1 /\ N >= B /\ N % B = 0)
    => /\ Len(stmts) = N \div B
       /\ stmts[Len(stmts)].start = N - B
       /\ RowsOf(stmts[Len(stmts)]) = Interval(N - B, N)
       /\ \A i \in 1..Len(stmts) : RowsOf(stmts[i]) # <<>>

C1_Witness ==
    /\ Ended("upload_data_to_table") /\ result = "ok"
    /\ B >= 1 /\ N % B = 0 /\ N \div B >= 2
    /\ Len(stmts) = N \div B

\* C2 as stated: the transaction begun by truncate_table or drop_table is
\* committed on every outcome, also when the statement fails with an
\* unrelated error and LoggedDatabaseError is raised.
C2_AlwaysCommitted ==
    ((Ended("truncate_table") \/ Ended("drop_table")) /\ trans # "none")
    => trans = "committed"

\* C2 amended: the transaction is committed exactly when the function
\* returns, that is when the statement succeeded or failed with "table or
\* view does not exist"; when it fails with another error the
\* LoggedDatabaseError is raised, the commit is not performed and the
\* connection is closed with the transaction still open.
C2_CommittedIffReturns ==
    ((Ended("truncate_table") \/ Ended("drop_table")) /\ trans # "none")
    => /\ trans = "committed" <=> result = "ok"
       /\ result = "ok" <=> stmts[1].answer \in {Ok, NotExist}
       /\ result # "ok" => result = "LoggedDatabaseError" /\ trans = "rolled back"

C2_Witness ==
    /\ Ended("truncate_table")
    /\ result = "LoggedDatabaseError"
    /\ stmts[1].answer = OtherDbErr
    /\ trans = "rolled back"

\* C3: a schema query returns None only when the query failed with "table or
\* view does not exist"; any other database error reaches the caller.
C3_OtherErrorsPropagate ==
    ((Ended("get_db_table_column_names") \/ Ended("get_db_table_row_count"))
        /\ Len(stmts) = 1)
    => /\ (result = "ok" /\ retval.none) => stmts[1].answer = NotExist
       /\ stmts[1].answer = OtherDbErr => result # "ok"

\* C4: a connection acquired through ConnectionManager is never closed twice,
\* at most one is open at a time, and when the public function has returned
\* or raised every connection it acquired has been closed exactly once.
C4_ClosedExactlyOnce ==
    /\ \A i \in 1..Len(closes) : closes[i] <= 1
    /\ Cardinality({i \in 1..Len(closes) : closes[i] = 0}) <= 1
    /\ pc = "idle" => \A i \in 1..Len(closes) : closes[i] = 1

C4_Witness ==
    /\ Ended("upload_data_to_table")
    /\ result = "DatabaseError"
    /\ Len(stmts) >= 2
    /\ closes = <<1>>

\* C5: every batch of an upload is committed before the next one starts, and
\* when the insert of a batch fails the rows of the batches before it stay in
\* the table, the failed insert is the last statement of the call, and the
\* error reaches the caller.
C5_BatchesCommitted ==
    /\ (op = "upload_data_to_table" /\ pc \in {"up_loop", "up_exec", "up_tail"})
       => /\ pend = <<>>
          /\ \A i \in 1..Len(stmts) : stmts[i].answer = Ok
          /\ table.rows = tableBefore.rows \o InsertedRows(stmts)
    /\ (Ended("upload_data_to_table") /\ result # "ok" /\ Len(stmts) >= 1)
       => /\ result = "DatabaseError"
          /\ stmts[Len(stmts)].answer # Ok
          /\ \A i \in 1..(Len(stmts) - 1) : stmts[i].answer = Ok
          /\ table.rows = tableBefore.rows
                            \o InsertedRows(SubSeq(stmts, 1, Len(stmts) - 1))

C5_Witness ==
    /\ Ended("upload_data_to_table")
    /\ result = "DatabaseError"
    /\ Len(stmts) >= 2
    /\ B >= 1
    /\ Len(table.rows) > Len(tableBefore.rows)

\* the column sets compared by create_table, for the table as it is now
DataSet == NewDataColNamesSet(table_data.columns, use_date_created)
TableSet == DbColNamesSet(table.cols)

\* C6 as stated: no insert of an upload is executed unless the data's
\* normalised column set equals the table's.
C6_UploadChecksColumns ==
    (op = "upload_data_to_table" /\ Len(stmts) >= 1)
    => table.exists /\ DataSet = TableSet

\* C6 amended: upload_data_to_table compares nothing; the comparison is
\* create_table's.  Only an upload that directly follows a create_table call
\* (same data, same use_date_created) which found the table and returned after
\* comparing the columns executes its inserts against a table whose normalised
\* column set equals the data's.
C6_UploadAfterCompare ==
    (op = "upload_data_to_table" /\ Len(stmts) >= 1
        /\ prev.created /\ prev.compared /\ prev.udc = use_date_created)
    => table.exists /\ DataSet = TableSet

C6_Witness ==
    /\ Ended("upload_data_to_table") /\ result = "ok"
    /\ prev.created /\ prev.compared /\ prev.udc = use_date_created
    /\ use_date_created
    /\ Len(table.rows) > 0

\* C7: a create_table call that directly follows a create_table call which
\* returned (same data, same use_date_created), and in which no statement
\* fails for an unrelated reason, returns, leaves the table as it found it,
\* and the table exists.
C7_CreateIdempotent ==
    (Ended("create_table") /\ prev.created /\ prev.udc = use_date_created
        /\ result \notin {"DatabaseError", "Exception", "LoggedDatabaseError"}
        /\ \A i \in 1..Len(stmts) : ~Unrelated(stmts[i].answer))
    => /\ result = "ok"
       /\ table.exists
       /\ table = tableBefore

C9_BatchesPartitionRows ==
    (Ended("upload_data_to_table") /\ result = "ok" /\ B >= 1)
    => /\ Len(stmts) >= 1
       /\ SliceIndex(stmts[1].start, N) = 0
       /\ SliceIndex(stmts[Len(stmts)].stop, N) = N
       /\ \A i \in 1..Len(stmts) :
             /\ stmts[i].kind = "insert"
             /\ SliceIndex(stmts[i].start, N) <= SliceIndex(stmts[i].stop, N)
             /\ Len(RowsOf(stmts[i])) <= B
       /\ \A i \in 1..(Len(stmts) - 1) :
             SliceIndex(stmts[i].stop, N) = SliceIndex(stmts[i + 1].start, N)
       /\ InsertedRows(stmts) = Interval(0, N)
       /\ table.rows = tableBefore.rows \o Interval(0, N)
       /\ tableBefore.rows = <<>> => Len(table.rows) = N

C9_Witness ==
    /\ Ended("upload_data_to_table") /\ result = "ok"
    /\ N = 3 /\ B = 2
    /\ tableBefore.rows = <<>>
    /\ Len(stmts) = 2
    /\ table.rows = <<0, 1, 2>>

\* C10: every call of upload_data_to_table ends, whatever the number of rows
\* and the batch size: it returns or raises after finitely many inserts.
C10_UploadEnds == (pc = "up_enter") ~> (pc = "idle")

====
